---- MODULE Spec2Model ----
(***************************************************************************)
(* Auction-item table classifiers of scraper-mega:                         *)
(*   - src/scrapers/groq_classifier.py  (v2.0, keyword pre-classifier +    *)
(*     Groq AI + fallback 'diversos'), suffix _v2 below;                   *)
(*   - src/groq_classifier.py (opportunity pre-filter + Groq AI with       *)
(*     multiple categories + fallback 'oportunidades'), suffix _v1 below.  *)
(* Python strings are TLA+ strings; an Optional value is <<>> (None) or    *)
(* <<v>>; a dict is a function whose DOMAIN is the set of keys present.    *)
(***************************************************************************)
EXTENDS Integers, Sequences, FiniteSets, TLC

\* Bound on the number of classify calls issued to one classifier instance.
MaxCalls == 2

\* max_pages of _scrape_section in megaleiloes and sodre (50 in the source);
\* superbid's is twice that (100 in the source).
MaxPages == 4

\* Longest page of cards; the page_size of superbid (100 in the source).
MaxCards == 2

----------------------------------------------------------------------------
\* Python values and str primitives used by the classifiers

None == <<>>
Some(v) == <<v>>
IsNone(o) == o = <<>>
Val(o) == o[1]

\* not x, for an Optional[str] x (None and '' are falsy)
Falsy(o) == IsNone(o) \/ Val(o) = ""

\* dict.get(key, default) on a dict whose values are Optional
Get(d, key, default) == IF key \in DOMAIN d THEN d[key] ELSE Some(default)

\* d[key] = d.get(key, 0) + 1
Incr(d, key) ==
  [k \in DOMAIN d \cup {key} |-> IF k = key THEN (IF key \in DOMAIN d THEN d[key] ELSE 0) + 1 ELSE d[k]]

RECURSIVE SumOver(_, _)
SumOver(d, keys) ==
  IF keys = {} THEN 0
  ELSE LET k == CHOOSE x \in keys : TRUE IN d[k] + SumOver(d, keys \ {k})

\* sum(d.values())
SumValues(d) == SumOver(d, DOMAIN d)

Ch(s, i) == SubSeq(s, i, i)

\* characters str.strip() and str.split() treat as whitespace, and regex \s
Whitespace == {" ", "\t", "\n", "\r", "\f"}

UpperChars == "ABCDEFGHIJKLMNOPQRSTUVWXYZÁÀÂÃÉÊÍÓÔÕÚÇ"
LowerChars == "abcdefghijklmnopqrstuvwxyzáàâãéêíóôõúç"
Digits == "0123456789"

CharsOf(s) == {Ch(s, i) : i \in 1..Len(s)}

\* regex \w and \d
WordChars == CharsOf(UpperChars) \cup CharsOf(LowerChars) \cup CharsOf(Digits) \cup {"_", "²"}
DigitChars == CharsOf(Digits)

LowerChar(c) ==
  IF c \in CharsOf(UpperChars)
  THEN Ch(LowerChars, CHOOSE i \in 1..Len(UpperChars) : Ch(UpperChars, i) = c)
  ELSE c

\* str.lower()
RECURSIVE Lower(_)
Lower(s) == IF s = "" THEN "" ELSE LowerChar(Ch(s, 1)) \o Lower(SubSeq(s, 2, Len(s)))

\* kw in text
Contains(text, kw) ==
  \E i \in 1..(Len(text) - Len(kw) + 1) : SubSeq(text, i, i + Len(kw) - 1) = kw

\* any(kw in text for kw in kws)
AnyIn(kws, text) == \E i \in 1..Len(kws) : Contains(text, kws[i])

\* s[:n]
Prefix(s, n) == SubSeq(s, 1, IF Len(s) < n THEN Len(s) ELSE n)

\* str.strip()
Strip(s) ==
  LET nonws == {i \in 1..Len(s) : Ch(s, i) \notin Whitespace}
  IN IF nonws = {} THEN ""
     ELSE SubSeq(s, CHOOSE i \in nonws : \A j \in nonws : i <= j,
                    CHOOSE i \in nonws : \A j \in nonws : j <= i)

\* str.replace(old, new) for a one-character old
RECURSIVE Replace(_, _, _)
Replace(s, old, new) ==
  IF s = "" THEN ""
  ELSE (IF Ch(s, 1) = old THEN new ELSE Ch(s, 1)) \o Replace(SubSeq(s, 2, Len(s)), old, new)

\* str.split(sep) for a one-character sep: the list of fields
RECURSIVE Split(_, _)
Split(s, sep) ==
  LET hits == {i \in 1..Len(s) : Ch(s, i) = sep}
  IN IF hits = {} THEN << s >>
     ELSE LET i == CHOOSE h \in hits : \A g \in hits : h <= g
          IN << SubSeq(s, 1, i - 1) >> \o Split(SubSeq(s, i + 1, Len(s)), sep)

\* str.split(): the list of whitespace-separated words
RECURSIVE SplitWords(_)
SplitWords(s) ==
  LET t == Strip(s)
      ws == {i \in 1..Len(t) : Ch(t, i) \in Whitespace}
  IN IF t = "" THEN << >>
     ELSE IF ws = {} THEN << t >>
     ELSE LET i == CHOOSE h \in ws : \A g \in ws : h <= g
          IN << SubSeq(t, 1, i - 1) >> \o SplitWords(SubSeq(t, i + 1, Len(t)))

\* f"{value}" of an Optional[str]
Fmt(o) == IF IsNone(o) THEN "None" ELSE Val(o)

----------------------------------------------------------------------------
\* src/scrapers/category_indicators.py

\* keys of TABLES_INFO
TABLES_INFO_v2 ==
  { "tecnologia", "eletrodomesticos", "bens_consumo", "veiculos",
    "alimentos_bebidas", "moveis_decoracao", "casa_utilidades", "artes_colecionismo",
    "imoveis", "materiais_construcao", "industrial_equipamentos", "maquinas_pesadas_agricolas",
    "nichados", "partes_pecas", "animais", "sucatas_residuos",
    "diversos" }

MIXED_LOT_CATEGORY_INDICATORS ==
  [ tecnologia |-> << "notebook", "tablet", "smartphone", "impressora", "monitor", "telefone", "celular" >>,
    eletrodomesticos |-> << "geladeira", "fogao", "microondas", "micro-ondas", "tv", "televisao", "lavadora", "bebedouro" >>,
    moveis |-> << "sofa", "mesa", "cadeira", "armario", "cama" >>,
    casa_utilidades |-> << "panela", "prato", "copo", "talher" >>,
    veiculos |-> << "carro", "moto", "caminhao", "bicicleta" >>,
    imoveis |-> << "casa", "apartamento", "terreno" >> ]

FINANCIAL_ABSTRACT_KEYWORDS ==
  <<
    "cotas sociais", "acoes", "ações", "expectativa de direito",
    "direito creditorio", "direitos creditorios", "credito de",
    "emprestimo compulsorio", "marca registrada", "registro de marca",
    "marca devidamente registrada", "inpi", "titulo patrimonial",
    "titulo de clube", "propriedade intelectual", "patente" >>

----------------------------------------------------------------------------
\* src/scrapers/groq_classifier.py: keyword lists of _try_obvious_classification

imovel_kw ==
  <<
    "apartamento", "casa ", "terreno", "lote ", "sala comercial", "galpao",
    "imovel", "propriedade", " m2", " m²", "metro quadrado", "quarto",
    "suite", "vaga ", "garagem", "fazenda", "sitio", "chacara", "edificio",
    "cobertura", "kitnet", "studio", "flat", "condominio", "area rural",
    "area urbana" >>

veiculo_kw ==
  <<
    "carro ", "automovel", "veiculo", " moto ", "motocicleta", "caminhao",
    "onibus", " van ", "pickup", "bicicleta", "bike ", "jet ski", "lancha",
    "barco", "aviao", "aeronave", "helicoptero", "fiat ", "ford ",
    "chevrolet", "honda ", "toyota", "volkswagen", "hyundai", "renault",
    "nissan", "peugeot", "civic", "corolla", "gol ", "uno ", "palio", "onix",
    "hb20", "sandero", "logan", "cg 150", "cg 160", "fan ", "titan" >>

\* the nichados list with no industrial-kitchen term
nichado_kw_clinical ==
  << "medicamento", "farmacia", "dentista", "hospitalar", "veterinario", "laboratorio" >>

nichado_kw ==
  <<
    "medicamento", "farmacia", "farmaceutico", "produto de higiene",
    "higiene hospitalar", "produto hospitalar", "vitamina",
    "material hospitalar", "insumo medico", "odontologic",
    "cadeira odontologic", "dentista", "consultorio odontologico",
    "equipo odontologico", "autoclave", "raio x dental", "kavo", "gnatus",
    "equipamento medico", "hospitalar", "maca", "mesa cirurgica",
    "desfibrilador", "monitor de sinais", "clinica", "veterinario",
    "clinica veterinaria", "mesa veterinaria", "depilacao laser",
    "criolipilise", "radiofrequencia", "estetica profissional",
    "fogao industrial", "geladeira industrial", "refrigerador industrial",
    "cozinha industrial", "cozinha profissional", "forno industrial",
    "fogao 6 bocas", "coifa industrial", "camara fria", "freezer industrial",
    "balcao refrigerado", "mesa inox", "pia inox", "bancada inox",
    "equipamento gastronomico", "pass through", "laboratorio", "centrifuga",
    "microscopio", "balanca analitica" >>

tech_kw ==
  <<
    "notebook", "computador", "impressora", "smartphone", "celular",
    "tablet", "iphone", "ipad", "samsung galaxy", "servidor", "monitor ",
    "camera digital", "drone ", "videogame", "console", "xbox",
    "playstation", "smartwatch", "roteador", "switch ", "mouse", "teclado",
    "webcam", "ssd ", "hd externo", "pendrive" >>

eletro_kw ==
  <<
    "geladeira", "refrigerador", "fogao ", "microondas", "micro-ondas",
    "lavadora", "secadora", "lava e seca", "ar condicionado", "ventilador",
    "purificador", " tv ", "televisao", "smart tv", "air fryer",
    "fritadeira eletrica", "aspirador", "cafeteira", "liquidificador",
    "batedeira", "ferro de passar" >>

moveis_kw ==
  <<
    "sofa", "mesa ", "cadeira", "poltrona", "armario", "guarda-roupa",
    "cama ", "colchao", "estante", "rack ", "criado-mudo", "comoda",
    "aparador", "buffet", "escrivaninha", "puff", "banqueta", "lustres",
    "luminaria", "quadro decoracao", "espelho", "tapete", "cortina",
    "persiana", "carpete" >>

utilidades_kw ==
  <<
    "panela", "frigideira", "assadeira", "prato", "tigela", "bowl", "talher",
    "garfo", "faca ", "colher", "copo ", "xicara", "caneca", "jarra",
    "marmita", "pote ", "organizador domestico", "cesto", "vassoura", "rodo",
    "balde", "varal", "tabua de corte", "kit churrasco" >>

consumo_kw ==
  <<
    "roupa", "calcado", "sapato", "tenis", "bolsa", "mochila", "carteira",
    "oculos", "relogio", "joia", "colar", "anel", "brinco", "pulseira",
    "perfume", "cosmetico", "maquiagem", "mala ", "valise", "bone ",
    "chapeu", "cachecol", "cinto" >>

alimentos_kw ==
  <<
    "vinho", "whisky", "cerveja", "cafe ", "cha ", "suco ", "refrigerante",
    "agua mineral", "suplemento alimentar", "proteina", "whey",
    "barra de cereal", "chocolate" >>

construcao_kw ==
  <<
    "cimento", "tijolo", "bloco", "telha", "piso ", "porcelanato",
    "ceramica", "azulejo", "revestimento", "porta ", "janela", "fechadura",
    "tinta ", "verniz", "tubo ", "cano ", "torneira", "registro", "madeira",
    "tabua ", "viga", "areia ", "brita", "vergalhao", "ferro ", "aco ",
    "cortadeira de piso", "serra marmore", "disco de corte", "furadeira",
    "parafusadeira", "nivel", "prumo" >>

industrial_kw ==
  <<
    "torno", "fresadora", "prensa", "compressor industrial", "gerador",
    "transformador", "motor industrial", "bomba industrial", "maquina cnc",
    "serra industrial", "furadeira industrial", "lixadeira industrial",
    "esmerilhadeira", "injetora", "extrusora", "caldeira",
    "forno industrial", "equipamento de producao", "linha de producao",
    "esteira transportadora", "compactador", "compactador de lixo",
    "coletor de lixo", "caminhao compactador" >>

maquinas_kw ==
  <<
    "retroescavadeira", "escavadeira", "pa carregadeira", "motoniveladora",
    "rolo compactador", "patrol", "trator agricola", "colheitadeira",
    "plantadeira", "pulverizador", "grade agricola", "arado", "semeadeira",
    "rocadeira", "empilhadeira", "bobcat", "minicarregadeira", "terraplenagem" >>

pecas_kw ==
  <<
    "peca ", "pecas ", "componente", "reposicao", "sobressalente",
    "motor (peca)", "engrenagem", "rolamento", "correia", "filtro ", "vela ",
    "bateria (peca)", "alternador", "radiador", "pneu", "aro ",
    "disco de freio", "pastilha", "amortecedor", "suspensao",
    "cambio (peca)", "embreagem" >>

animais_kw ==
  <<
    "gado", " boi ", " vaca ", "novilho", "touro", "cavalo", "egua", "potro",
    "jumento", "porco", "suino", "galinha", "frango", "pato", "ovelha",
    "carneiro", "cabra", "caprino", "ovino", "ave ", "animal vivo", "plantel" >>

sucatas_kw ==
  <<
    "sucata", "residuo", "reciclavel", "descarte", "ferro velho",
    "metal sucata", "aluminio sucata", "cobre sucata", "lata", "papelao",
    "plastico sucata", "eletronica sucata", "bateria usada", "aparas",
    "refugo", "resto", "sobra" >>

artes_kw ==
  <<
    "quadro arte", "pintura", "escultura", "estatua", "obra de arte",
    "antiguidade", "moeda antiga", "selo", "colecao", "colecionavel",
    "raridade", "vintage", "retro", "reliquia", "porcelana antiga",
    "cristal antigo" >>
----------------------------------------------------------------------------
\* src/scrapers/groq_classifier.py: GroqTableClassifier (v2.0)

\* self.stats as set by __init__
InitStats_v2 ==
  [ total |-> 0, pre_classified |-> 0, groq_classifications |-> 0,
    financial_blocked |-> 0, mixed_detected |-> 0, failed |-> 0,
    by_table |-> << >> ]

\* __init__ that tests 'self.api_key is None' instead of 'not self.api_key'
init_v2_is_none(key) ==
  IF IsNone(key)
  THEN [ exc |-> "ValueError", self |-> None ]
  ELSE [ exc |-> "", self |-> Some([ api_key |-> Val(key), stats |-> InitStats_v2 ]) ]

\* __init__ with key the module's GROQ_API_KEY: raises ValueError when it is
\* None or ''
init_v2(key) ==
  IF Falsy(key)
  THEN [ exc |-> "ValueError", self |-> None ]
  ELSE [ exc |-> "", self |-> Some([ api_key |-> Val(key), stats |-> InitStats_v2 ]) ]

_is_financial_abstract(item) ==
  LET text == Lower(Fmt(Get(item, "normalized_title", "")) \o " "
                    \o Fmt(Get(item, "description", "")))
  IN AnyIn(FINANCIAL_ABSTRACT_KEYWORDS, text)

\* re.search(r'\w+\s*,\s*\w+.*,\s*\w+', title): two commas, a word before the
\* first, a word right after each, and no line break between the word that
\* follows the first comma and the second comma
MixedLotPattern(title) ==
  \E i, j \in 1..Len(title) :
    /\ i < j
    /\ Ch(title, i) = ","
    /\ Ch(title, j) = ","
    /\ \E k \in 1..(i - 1) :
         /\ Ch(title, k) \in WordChars
         /\ \A m \in (k + 1)..(i - 1) : Ch(title, m) \in Whitespace
    /\ \E p \in (i + 1)..(j - 1) :
         /\ Ch(title, p) \in WordChars
         /\ \A m \in (i + 1)..(p - 1) : Ch(title, m) \in Whitespace
         /\ \A m \in (p + 1)..(j - 1) : Ch(title, m) # "\n"
    /\ \E q \in (j + 1)..Len(title) :
         /\ Ch(title, q) \in WordChars
         /\ \A m \in (j + 1)..(q - 1) : Ch(title, m) \in Whitespace

\* the mixed-lot rule satisfied by indicators of a single category
_is_obvious_mixed_lot_one_category(item) ==
  LET title == Lower(Val(Get(item, "normalized_title", "")))
      categories_found ==
        { category \in DOMAIN MIXED_LOT_CATEGORY_INDICATORS :
            AnyIn(MIXED_LOT_CATEGORY_INDICATORS[category], title) }
  IN IF ~MixedLotPattern(title) THEN FALSE
     ELSE Cardinality(categories_found) >= 1

_is_obvious_mixed_lot(item) ==
  LET title == Lower(Val(Get(item, "normalized_title", "")))
      categories_found ==
        { category \in DOMAIN MIXED_LOT_CATEGORY_INDICATORS :
            AnyIn(MIXED_LOT_CATEGORY_INDICATORS[category], title) }
  IN IF ~MixedLotPattern(title) THEN FALSE
     ELSE Cardinality(categories_found) >= 2

\* returns Some(category) or None
_try_obvious_classification(title, description) ==
  LET text == Lower(title \o " " \o description) IN
  IF AnyIn(imovel_kw, text)
     /\ ~AnyIn(<< "peca", "componente", "miniatura", "brinquedo" >>, text)
    THEN Some("imoveis")
  ELSE IF AnyIn(veiculo_kw, text)
     /\ ~AnyIn(<< "peca", "motor (peca)", "bateria (peca)", "miniatura" >>, text)
    THEN Some("veiculos")
  ELSE IF AnyIn(nichado_kw, text) THEN Some("nichados")
  ELSE IF AnyIn(tech_kw, text) THEN Some("tecnologia")
  ELSE IF AnyIn(eletro_kw, text)
     /\ ~AnyIn(<< "industrial", "6 bocas", "profissional", "inox" >>, text)
    THEN Some("eletrodomesticos")
  ELSE IF AnyIn(moveis_kw, text) THEN Some("moveis_decoracao")
  ELSE IF AnyIn(utilidades_kw, text) THEN Some("casa_utilidades")
  ELSE IF AnyIn(consumo_kw, text) THEN Some("bens_consumo")
  ELSE IF AnyIn(alimentos_kw, text) THEN Some("alimentos_bebidas")
  ELSE IF AnyIn(construcao_kw, text) THEN Some("materiais_construcao")
  ELSE IF AnyIn(industrial_kw, text) THEN Some("industrial_equipamentos")
  ELSE IF AnyIn(maquinas_kw, text) THEN Some("maquinas_pesadas_agricolas")
  ELSE IF AnyIn(pecas_kw, text) THEN Some("partes_pecas")
  ELSE IF AnyIn(animais_kw, text) THEN Some("animais")
  ELSE IF AnyIn(sucatas_kw, text) THEN Some("sucatas_residuos")
  ELSE IF AnyIn(artes_kw, text) THEN Some("artes_colecionismo")
  ELSE None

\* The outcome of requests.post(...) as _call_groq sees it:
\*   raises      the call raised (connection error, timeout)
\*   status_code the HTTP status
\*   json        None when response.json() raises, else Some(data) with
\*               data.choices = None (no 'choices' key) or Some(list of
\*               message contents, each None or Some(str))
\* _call_groq without the test of response.status_code
_call_groq_v2_any_status(post) ==
  IF post.raises THEN None
  ELSE IF IsNone(post.json) THEN None
  ELSE LET choices == Val(post.json).choices IN
       IF ~IsNone(choices) /\ Len(Val(choices)) > 0
       THEN IF IsNone(Val(choices)[1]) THEN None
            ELSE Some(Strip(Val(Val(choices)[1])))
       ELSE None

\* _call_groq returns the stripped content of the first choice or None
_call_groq_v2(post) ==
  IF post.raises THEN None
  ELSE IF post.status_code = 200
  THEN IF IsNone(post.json) THEN None
       ELSE LET choices == Val(post.json).choices IN
            IF ~IsNone(choices) /\ Len(Val(choices)) > 0
            THEN IF IsNone(Val(choices)[1]) THEN None
                 ELSE Some(Strip(Val(Val(choices)[1])))
            ELSE None
  ELSE None

mappings ==
  [ imovel |-> "imoveis", propriedade |-> "imoveis", casa |-> "imoveis",
    apartamento |-> "imoveis", veiculo |-> "veiculos", carro |-> "veiculos",
    moto |-> "veiculos", tecnologias |-> "tecnologia", tech |-> "tecnologia",
    eletrodomestico |-> "eletrodomesticos", eletro |-> "eletrodomesticos",
    movel |-> "moveis_decoracao", moveis |-> "moveis_decoracao",
    utilidades |-> "casa_utilidades", utilidade |-> "casa_utilidades",
    consumo |-> "bens_consumo", bens |-> "bens_consumo",
    alimento |-> "alimentos_bebidas", bebida |-> "alimentos_bebidas",
    construcao |-> "materiais_construcao", material |-> "materiais_construcao",
    industrial |-> "industrial_equipamentos",
    equipamento |-> "industrial_equipamentos",
    maquina |-> "maquinas_pesadas_agricolas",
    maquinas |-> "maquinas_pesadas_agricolas",
    agricola |-> "maquinas_pesadas_agricolas",
    agricolas |-> "maquinas_pesadas_agricolas",
    nichado |-> "nichados", peca |-> "partes_pecas", pecas |-> "partes_pecas",
    animal |-> "animais", sucata |-> "sucatas_residuos",
    arte |-> "artes_colecionismo", colecionismo |-> "artes_colecionismo" ]

\* the answer as cleaned by _classify_with_groq: None when split()[0] raises
\* IndexError (an answer of punctuation and blanks only)
CleanResponse_v2(response) ==
  LET s1 == Lower(Strip(response))
      s2 == Replace(Replace(Replace(Replace(s1, "\n", " "), ",", ""), ";", ""), ".", "")
  IN IF s2 = "" THEN Some("")
     ELSE IF SplitWords(s2) = << >> THEN None
     ELSE Some(SplitWords(s2)[1])

\* returns Some(table) or None; every exception is caught
_classify_with_groq_v2(title, description, post) ==
  LET response == _call_groq_v2(post) IN
  IF Falsy(response) THEN None
  ELSE LET response_clean == CleanResponse_v2(Val(response)) IN
       IF IsNone(response_clean) THEN None
       ELSE IF Val(response_clean) \in TABLES_INFO_v2 THEN response_clean
       ELSE IF Val(response_clean) \in DOMAIN mappings
            THEN Some(mappings[Val(response_clean)])
       ELSE None
----------------------------------------------------------------------------
\* src/scrapers/normalizer.py: UniversalNormalizer, the fields classify reads

\* keys and values of replacements, in order
Accented == "áàâãäéèêëíìîïóòôõöúùûüçñ"
Unaccented == "aaaaaeeeeiiiiooooouuuucn"

RemoveAccent(c) ==
  IF c \in CharsOf(Accented)
  THEN Ch(Unaccented, CHOOSE i \in 1..Len(Accented) : Ch(Accented, i) = c)
  ELSE c

\* for old, new in replacements.items(): normalized = normalized.replace(old, new)
RECURSIVE RemoveAccents(_)
RemoveAccents(s) ==
  IF s = "" THEN "" ELSE RemoveAccent(Ch(s, 1)) \o RemoveAccents(SubSeq(s, 2, Len(s)))

\* re.sub(r'[^\w\s]', ' ', s)
RECURSIVE BlankPunctuation(_)
BlankPunctuation(s) ==
  IF s = "" THEN ""
  ELSE (IF Ch(s, 1) \in WordChars \cup Whitespace THEN Ch(s, 1) ELSE " ")
         \o BlankPunctuation(SubSeq(s, 2, Len(s)))

\* s without its longest prefix of characters of class
RECURSIVE DropWhile(_, _)
DropWhile(s, class) ==
  IF s # "" /\ Ch(s, 1) \in class THEN DropWhile(SubSeq(s, 2, Len(s)), class) ELSE s

\* re.sub(class+, ' ', s): every maximal run of class characters becomes one space
RECURSIVE CollapseRuns(_, _)
CollapseRuns(s, class) ==
  IF s = "" THEN ""
  ELSE IF Ch(s, 1) \in class THEN " " \o CollapseRuns(DropWhile(s, class), class)
  ELSE Ch(s, 1) \o CollapseRuns(SubSeq(s, 2, Len(s)), class)

\* title is Optional[str]; returns str
_normalize_for_search(title) ==
  IF Falsy(title) THEN ""
  ELSE Strip(CollapseRuns(BlankPunctuation(RemoveAccents(Lower(Val(title)))), Whitespace))

\* length of the match of <br\s*/?> (IGNORECASE) at the start of s, 0 if none
BrMatch(s) ==
  IF Len(s) >= 3 /\ Lower(SubSeq(s, 1, 3)) = "<br"
  THEN LET spaced == DropWhile(SubSeq(s, 4, Len(s)), Whitespace)
           slashed == IF spaced # "" /\ Ch(spaced, 1) = "/"
                      THEN SubSeq(spaced, 2, Len(spaced)) ELSE spaced
       IN IF slashed # "" /\ Ch(slashed, 1) = ">" THEN Len(s) - Len(slashed) + 1 ELSE 0
  ELSE 0

\* re.sub(r'<br\s*/?>', '\n', s, flags=re.IGNORECASE)
RECURSIVE BrToNewline(_)
BrToNewline(s) ==
  IF s = "" THEN ""
  ELSE IF BrMatch(s) > 0 THEN "\n" \o BrToNewline(SubSeq(s, BrMatch(s) + 1, Len(s)))
  ELSE Ch(s, 1) \o BrToNewline(SubSeq(s, 2, Len(s)))

\* length of the match of <[^>]+> at the start of s, 0 if none
TagMatch(s) ==
  LET closes == { i \in 2..Len(s) : Ch(s, i) = ">" } IN
  IF s = "" \/ Ch(s, 1) # "<" \/ closes = {} THEN 0
  ELSE LET j == CHOOSE i \in closes : \A k \in closes : i <= k
       IN IF j > 2 THEN j ELSE 0

\* re.sub(r'<[^>]+>', '', s)
RECURSIVE RemoveTags(_)
RemoveTags(s) ==
  IF s = "" THEN ""
  ELSE IF TagMatch(s) > 0 THEN RemoveTags(SubSeq(s, TagMatch(s) + 1, Len(s)))
  ELSE Ch(s, 1) \o RemoveTags(SubSeq(s, 2, Len(s)))

\* length of the match of \n\s*\n+ at the start of s, 0 if none: up to the last
\* line break of the whitespace run that follows the first one
BlankLinesMatch(s) ==
  IF s = "" \/ Ch(s, 1) # "\n" THEN 0
  ELSE LET run == Len(s) - Len(DropWhile(s, Whitespace))
           breaks == { i \in 2..run : Ch(s, i) = "\n" }
       IN IF breaks = {} THEN 0
          ELSE CHOOSE i \in breaks : \A k \in breaks : k <= i

\* re.sub(r'\n\s*\n+', '\n\n', s)
RECURSIVE CollapseBlankLines(_)
CollapseBlankLines(s) ==
  IF s = "" THEN ""
  ELSE IF BlankLinesMatch(s) > 0
  THEN "\n\n" \o CollapseBlankLines(SubSeq(s, BlankLinesMatch(s) + 1, Len(s)))
  ELSE Ch(s, 1) \o CollapseBlankLines(SubSeq(s, 2, Len(s)))

\* description is Optional[str]; returns Optional[str]
_clean_description(description) ==
  IF Falsy(description) THEN None
  ELSE LET stripped == Strip(Val(description)) IN
       IF stripped = "" THEN None
       ELSE LET desc == CollapseRuns(CollapseBlankLines(RemoveTags(BrToNewline(stripped))),
                                     { " " })
            IN Some(Strip(IF Len(desc) > 3000 THEN SubSeq(desc, 1, 2997) \o "..." ELSE desc))

\* normalize(item), for an item whose cleaned title is clean_title: the fields
\* of the result that classify reads
normalize(clean_title, description) ==
  [ normalized_title |-> Some(_normalize_for_search(Some(clean_title))),
    description |-> _clean_description(description) ]


----------------------------------------------------------------------------
\* Inputs of the scrapers classifier: items as the caller passes them (a
\* normalized item has 'description': None when the description is empty)

\* collected items handed to normalize_items: << cleaned title, description >>
Collected ==
  { << "TVs, Geladeiras, Micro-ondas, Bebedouro e Telefone", Some("Retirada no local") >>,
    << "Sofá, Mesa, Notebook e Celular",
       Some("<p>Bens  usados</p><BR />\n \n\nRetirada no local<br>") >> }

Items_v2 ==
  { [ normalized_title |-> Some("apartamento 53 m2 01 vaga parque das nacoes"),
      description |-> Some("") ],
    [ normalized_title |-> Some("5948 acoes preferenciais classe b elet6"),
      description |-> Some("") ],
    [ normalized_title |-> Some("lote de titulos"),
      description |-> Some("Direitos sobre credito de ICMS") ],
    [ normalized_title |-> Some("tvs, geladeiras, micro-ondas, bebedouro e telefone"),
      description |-> Some("") ],
    [ normalized_title |-> Some("fogao industrial 6 bocas"),
      description |-> Some("equipamento de restaurante") ],
    [ normalized_title |-> Some("fogao industrial 6 bocas inox"),
      description |-> Some("retirada na garagem do predio") ],
    [ normalized_title |-> Some(" bebedouro ") ],
    [ normalized_title |-> Some("bebedouro"), description |-> None ],
    [ normalized_title |-> Some("itens nao identificados"),
      description |-> Some("sem detalhes") ],
    [ normalized_title |-> Some(""), description |-> Some("sem titulo") ],
    [ normalized_title |-> Some("  \t") ],
    [ description |-> Some("notebook dell") ],
    [ normalized_title |-> Some("terreno 300 m2 zona sul"), description |-> Some("") ],
    [ normalized_title |-> Some("marca registrada no inpi"), description |-> None ],
    [ normalized_title |-> Some(""), description |-> None ],
    [ normalized_title |-> Some("notebook, tablet, smartphone"), description |-> Some("") ],
    [ normalized_title |-> Some("parafuso, porca, arruela"), description |-> Some("") ],
    [ normalized_title |-> Some("geladeira e sofa"), description |-> Some("") ],
    [ normalized_title |-> Some("lote notebook computador impressora"),
      description |-> Some("") ],
    [ normalized_title |-> Some("tapete"), description |-> Some("usado") ],
    [ normalized_title |-> Some("tapete cortina"), description |-> Some("usado") ],
    [ normalized_title |-> Some("notebook celular geladeira ventilador"),
      description |-> Some("") ] }
  \cup { normalize(c[1], c[2]) : c \in Collected }

\* message contents the service may answer with
Answers ==
  { "imoveis", "Veiculos.\nPorque e um carro", " tecnologia ", "imovel",
    "diversos", "oportunidades", "banana", "tecnologia,eletrodomesticos",
    "tecnologia, tecnologia", ". ;", "..." , " ",
    "imoveis!", "Animais: sao cavalos" }

Content(c) == [ raises |-> FALSE, status_code |-> 200,
                json |-> Some([ choices |-> Some(<< c >>) ]) ]

\* outcomes of the HTTP request
Posts ==
  { [ raises |-> TRUE, status_code |-> 0, json |-> None ],
    [ raises |-> FALSE, status_code |-> 500, json |-> None ],
    [ raises |-> FALSE, status_code |-> 429, json |-> Some([ choices |-> None ]) ],
    [ raises |-> FALSE, status_code |-> 503,
      json |-> Some([ choices |-> Some(<< Some("imoveis") >>) ]) ],
    [ raises |-> FALSE, status_code |-> 200, json |-> None ],
    [ raises |-> FALSE, status_code |-> 200, json |-> Some([ choices |-> None ]) ],
    [ raises |-> FALSE, status_code |-> 200, json |-> Some([ choices |-> Some(<< >>) ]) ],
    Content(None) }
  \cup { Content(Some(a)) : a \in Answers }

\* the text predicates and the service stage, tabulated over the inputs
financial_abstract_of == [ item \in Items_v2 |-> _is_financial_abstract(item) ]

obvious_mixed_lot_of == [ item \in Items_v2 |-> _is_obvious_mixed_lot(item) ]

obvious_classification_of ==
  [ item \in { i \in Items_v2 : ~IsNone(Get(i, "description", "")) } |->
      _try_obvious_classification(Strip(Val(Get(item, "normalized_title", ""))),
                                  Prefix(Val(Get(item, "description", "")), 500)) ]

groq_v2_of == [ post \in Posts |-> _classify_with_groq_v2("", "", post) ]

\* The outcome of one classify call:
\*   exc      '' or the exception that escapes
\*   ret      the returned value (None or Some(table))
\*   stats    self.stats after the call
\*   item     the caller's item after the call
\*   stages   the stages evaluated, in order
\*   posts    the HTTP requests issued, in order
Outcome(exc, ret, stats, item, stages, posts) ==
  [ exc |-> exc, ret |-> ret, stats |-> stats, item |-> item,
    stages |-> stages, posts |-> posts ]

\* the 'if not title' branch returning None without touching the statistics
empty_title_v2_unrecorded(stats, item) ==
  Outcome("", None, stats, item, << >>, << >>)

\* classify, 'if not title' branch
empty_title_v2(stats, item) ==
  Outcome("", None, [ stats EXCEPT !.failed = @ + 1, !.total = @ + 1 ],
          item, << >>, << >>)

\* classify, 1: financial/abstract items
financial_blocked_v2(stats, item) ==
  Outcome("", Some("diversos"),
          [ stats EXCEPT !.financial_blocked = @ + 1,
                         !.by_table = Incr(@, "diversos"),
                         !.total = @ + 1 ],
          item, << "financial" >>, << >>)

\* the mixed-lot rule deciding without ending the call: the keyword stage is
\* evaluated after it and its category, when it finds one, is returned
mixed_detected_v2_continues(stats, item) ==
  LET obvious_category == obvious_classification_of[item] IN
  IF ~Falsy(obvious_category)
  THEN Outcome("", obvious_category,
               [ stats EXCEPT !.pre_classified = @ + 1,
                              !.by_table = Incr(@, Val(obvious_category)),
                              !.total = @ + 1 ],
               item, << "financial", "mixed", "keyword" >>, << >>)
  ELSE Outcome("", Some("diversos"),
               [ stats EXCEPT !.mixed_detected = @ + 1,
                              !.by_table = Incr(@, "diversos"),
                              !.total = @ + 1 ],
               item, << "financial", "mixed" >>, << >>)

\* classify, 2: explicit mixed lots
mixed_detected_v2(stats, item) ==
  Outcome("", Some("diversos"),
          [ stats EXCEPT !.mixed_detected = @ + 1,
                         !.by_table = Incr(@, "diversos"),
                         !.total = @ + 1 ],
          item, << "financial", "mixed" >>, << >>)

\* the keyword decision overridden by the catch-all once a category has been
\* decided by keywords before
pre_classified_v2_capped(stats, item, obvious_category) ==
  Outcome("", IF obvious_category \in DOMAIN stats.by_table
              THEN Some("diversos") ELSE Some(obvious_category),
          [ stats EXCEPT !.pre_classified = @ + 1,
                         !.by_table = Incr(@, obvious_category),
                         !.total = @ + 1 ],
          item, << "financial", "mixed", "keyword" >>, << >>)

\* classify, 3: keyword pre-classifier decided
pre_classified_v2(stats, item, obvious_category) ==
  Outcome("", Some(obvious_category),
          [ stats EXCEPT !.pre_classified = @ + 1,
                         !.by_table = Incr(@, obvious_category),
                         !.total = @ + 1 ],
          item, << "financial", "mixed", "keyword" >>, << >>)

\* classify, 4: Groq AI decided
groq_classified_v2(stats, item, table_name, post) ==
  Outcome("", Some(table_name),
          [ stats EXCEPT !.groq_classifications = @ + 1,
                         !.by_table = Incr(@, table_name),
                         !.total = @ + 1 ],
          item, << "financial", "mixed", "keyword", "groq" >>, << post >>)

\* the fallback without its by_table update
fallback_v2_no_table(stats, item, post) ==
  Outcome("", Some("diversos"),
          [ stats EXCEPT !.failed = @ + 1, !.total = @ + 1 ],
          item, << "financial", "mixed", "keyword", "groq", "fallback" >>, << post >>)

\* the fallback reached after the request was sent a second time
fallback_v2_retried(stats, item, post) ==
  Outcome("", Some("diversos"),
          [ stats EXCEPT !.failed = @ + 1,
                         !.by_table = Incr(@, "diversos"),
                         !.total = @ + 1 ],
          item, << "financial", "mixed", "keyword", "groq", "fallback" >>, << post, post >>)

\* classify, 5: fallback
fallback_v2(stats, item, post) ==
  Outcome("", Some("diversos"),
          [ stats EXCEPT !.failed = @ + 1,
                         !.by_table = Incr(@, "diversos"),
                         !.total = @ + 1 ],
          item, << "financial", "mixed", "keyword", "groq", "fallback" >>, << post >>)

\* classify(item), with post the outcome of the HTTP request if one is issued
classify_v2(self, item, post) ==
  LET stats == self.stats
      nt == Get(item, "normalized_title", "")
      desc == Get(item, "description", "")
  IN
  IF IsNone(nt) THEN Outcome("AttributeError", None, stats, item, << >>, << >>)
  ELSE IF IsNone(desc) THEN Outcome("TypeError", None, stats, item, << >>, << >>)
  ELSE
  LET title == Strip(Val(nt)) IN
  IF title = "" THEN empty_title_v2(stats, item)
  ELSE IF financial_abstract_of[item] THEN financial_blocked_v2(stats, item)
  ELSE IF obvious_mixed_lot_of[item] THEN mixed_detected_v2(stats, item)
  ELSE
  LET obvious_category == obvious_classification_of[item] IN
  IF ~Falsy(obvious_category)
  THEN pre_classified_v2(stats, item, Val(obvious_category))
  ELSE
  LET table_name == groq_v2_of[post] IN
  IF ~Falsy(table_name) THEN groq_classified_v2(stats, item, Val(table_name), post)
  ELSE fallback_v2(stats, item, post)

----------------------------------------------------------------------------
\* src/groq_classifier.py: GroqTableClassifier (multiple categories)

\* keys of GroqTableClassifier.TABLES_INFO
TABLES_INFO_v1 ==
  { "bens_consumo", "eletrodomesticos", "tecnologia", "veiculos",
    "moveis_decoracao", "casa_utilidades", "artes_colecionismo", "alimentos_bebidas",
    "imoveis", "materiais_construcao", "industrial_equipamentos", "maquinas_pesadas_agricolas",
    "nichados", "partes_pecas", "animais", "sucatas_residuos",
    "diversos", "oportunidades" }

\* self.stats as set by __init__
InitStats_v1 ==
  [ total |-> 0, success |-> 0, failed |-> 0, auto_oportunidades |-> 0,
    diversos |-> 0, by_table |-> << >>, oportunidades_reasons |-> << >>,
    diversos_combinations |-> << >> ]

\* __init__ with key the module's GROQ_API_KEY: raises ValueError when it is
\* None or ''
init_v1(key) ==
  IF Falsy(key)
  THEN [ exc |-> "ValueError", self |-> None ]
  ELSE [ exc |-> "", self |-> Some([ api_key |-> Val(key), stats |-> InitStats_v1 ]) ]

\* int(s) for a string of decimal digits
RECURSIVE ParseInt(_)
ParseInt(s) ==
  IF s = "" THEN 0
  ELSE 10 * ParseInt(SubSeq(s, 1, Len(s) - 1))
       + ((CHOOSE i \in 1..10 : Ch(Digits, i) = Ch(s, Len(s))) - 1)

\* s.startswith(w, i - 1), positions counted from 1
StartsWithAt(s, i, w) == i + Len(w) - 1 <= Len(s) /\ SubSeq(s, i, i + Len(w) - 1) = w

IsDigitAt(s, i) == i >= 1 /\ i <= Len(s) /\ Ch(s, i) \in DigitChars

\* first position >= i whose character is not in class (Len(s) + 1 if none)
SkipClass(s, i, class) ==
  CHOOSE e \in i..(Len(s) + 1) :
    /\ \A m \in i..(e - 1) : Ch(s, m) \in class
    /\ e = Len(s) + 1 \/ Ch(s, e) \notin class

\* group(1) of a greedy (\d+) that starts at position i
DigitsAt(s, i) == SubSeq(s, i, SkipClass(s, i, DigitChars) - 1)

\* the smallest element of a non-empty set of positions (re.search returns
\* the leftmost match)
Leftmost(S) == CHOOSE i \in S : \A j \in S : i <= j

\* (\d+)\s*(?:unidades|unids?|peças|pçs|itens|produtos): positions where a
\* match starts at the beginning of a run of digits
QuantityStarts1(text) ==
  { i \in 1..Len(text) :
      /\ IsDigitAt(text, i)
      /\ ~IsDigitAt(text, i - 1)
      /\ LET w == SkipClass(text, SkipClass(text, i, DigitChars), Whitespace)
         IN \E word \in { "unidades", "unid", "unids", "peças", "pçs", "itens", "produtos" } :
              StartsWithAt(text, w, word) }

\* lote\s+(?:com|de)\s+(\d+): positions of the digits of each match, by the
\* position where the match starts
QuantityDigits2(text) ==
  { << i, d >> \in (1..Len(text)) \X (1..Len(text)) :
      /\ StartsWithAt(text, i, "lote")
      /\ SkipClass(text, i + 4, Whitespace) > i + 4
      /\ \E prep \in { "com", "de" } :
           LET a == SkipClass(text, i + 4, Whitespace) IN
           /\ StartsWithAt(text, a, prep)
           /\ SkipClass(text, a + Len(prep), Whitespace) > a + Len(prep)
           /\ d = SkipClass(text, a + Len(prep), Whitespace)
      /\ IsDigitAt(text, d) }

\* quantidade[:\s]+(\d+)
QuantityDigits3(text) ==
  { << i, d >> \in (1..Len(text)) \X (1..Len(text)) :
      /\ StartsWithAt(text, i, "quantidade")
      /\ d = SkipClass(text, i + 10, Whitespace \cup { ":" })
      /\ d > i + 10
      /\ IsDigitAt(text, d) }

\* for each pattern in order: Some(qty) of its leftmost match, or None
QuantityMatches(text) ==
  << IF QuantityStarts1(text) = {} THEN None
     ELSE Some(ParseInt(DigitsAt(text, Leftmost(QuantityStarts1(text))))),
     IF QuantityDigits2(text) = {} THEN None
     ELSE LET i == Leftmost({ m[1] : m \in QuantityDigits2(text) })
          IN Some(ParseInt(DigitsAt(text, (CHOOSE m \in QuantityDigits2(text) : m[1] = i)[2]))),
     IF QuantityDigits3(text) = {} THEN None
     ELSE LET i == Leftmost({ m[1] : m \in QuantityDigits3(text) })
          IN Some(ParseInt(DigitsAt(text, (CHOOSE m \in QuantityDigits3(text) : m[1] = i)[2]))) >>

segunda_praca_keywords ==
  << "segunda praça", "2ª praça", "2a praça", "segunda praca", "novo pregão",
     "nova tentativa" >>

lote_misto_keywords ==
  << "lote misto", "lote variado", "itens diversos", "diversos itens",
     "mercadorias variadas", "produtos variados", "sortidos", "mix de" >>

\* x or 0, for an Optional[int] x
OrZero(o) == IF IsNone(o) THEN 0 ELSE Val(o)

\* returns << is_opportunity, reason >>
_is_opportunity_item(item) ==
  LET title == Lower(Val(Get(item, "title", "")))
      description == Lower(Val(Get(item, "description", "")))
      text == title \o " " \o description
      total_bids == OrZero(Get(item, "total_bids", 0))
      total_bidders == OrZero(Get(item, "total_bidders", 0))
      qtys == QuantityMatches(text)
      big == { n \in 1..3 : ~IsNone(qtys[n]) /\ Val(qtys[n]) >= 10 }
  IN
  IF total_bids > 0
    THEN << TRUE, "tem_lances (" \o ToString(total_bids) \o ")" >>
  ELSE IF total_bidders >= 3
    THEN << TRUE, "muitos_compradores (" \o ToString(total_bidders) \o ")" >>
  ELSE IF big # {}
    THEN << TRUE, "muitas_unidades (" \o ToString(Val(qtys[Leftmost(big)])) \o ")" >>
  ELSE IF AnyIn(segunda_praca_keywords, text) THEN << TRUE, "segunda_praca" >>
  ELSE IF AnyIn(lote_misto_keywords, text) THEN << TRUE, "lote_misto" >>
  ELSE << FALSE, "" >>

\* _call_groq returns the stripped content of the first choice or None
_call_groq_v1(post) ==
  IF post.raises THEN None
  ELSE IF post.status_code = 200
  THEN IF IsNone(post.json) THEN None
       ELSE LET choices == Val(post.json).choices IN
            IF ~IsNone(choices) /\ Len(Val(choices)) > 0
            THEN IF IsNone(Val(choices)[1]) THEN None
                 ELSE Some(Strip(Val(Val(choices)[1])))
            ELSE None
  ELSE None

\* [f(x) for x in xs]
RECURSIVE StripAll(_)
StripAll(xs) == IF xs = << >> THEN << >> ELSE << Strip(Head(xs)) >> \o StripAll(Tail(xs))

\* [cat for cat in categories if cat in TABLES_INFO and cat not in ['diversos', 'oportunidades']]
valid_categories_of(categories) ==
  SelectSeq(categories,
            LAMBDA cat : cat \in TABLES_INFO_v1 /\ cat \notin { "diversos", "oportunidades" })

\* valid_categories as _classify_with_groq computes it from the answer:
\* << >> when the call failed or answered nothing
valid_categories_v1(post) ==
  LET response == _call_groq_v1(post) IN
  IF Falsy(response) THEN << >>
  ELSE LET lowered == Lower(Strip(Val(response)))
           response_clean == IF Contains(lowered, "\n") THEN Split(lowered, "\n")[1]
                             ELSE lowered
           categories == StripAll(Split(response_clean, ","))
       IN valid_categories_of(categories)

\* characters of category names in code point order
CodePointOrder == "0123456789_abcdefghijklmnopqrstuvwxyz"

Ord(c) == CHOOSE i \in 1..Len(CodePointOrder) : Ch(CodePointOrder, i) = c

\* a < b on str
RECURSIVE StrLess(_, _)
StrLess(a, b) ==
  IF b = "" THEN FALSE
  ELSE IF a = "" THEN TRUE
  ELSE IF Ch(a, 1) = Ch(b, 1) THEN StrLess(SubSeq(a, 2, Len(a)), SubSeq(b, 2, Len(b)))
  ELSE Ord(Ch(a, 1)) < Ord(Ch(b, 1))

RECURSIVE InsertSorted(_, _)
InsertSorted(x, xs) ==
  IF xs = << >> THEN << x >>
  ELSE IF StrLess(Head(xs), x) THEN << Head(xs) >> \o InsertSorted(x, Tail(xs))
  ELSE << x >> \o xs

\* sorted(xs)
RECURSIVE Sorted(_)
Sorted(xs) == IF xs = << >> THEN << >> ELSE InsertSorted(Head(xs), Sorted(Tail(xs)))

\* sep.join(xs)
RECURSIVE Join(_, _)
Join(sep, xs) ==
  IF xs = << >> THEN ""
  ELSE IF Len(xs) = 1 THEN xs[1]
  ELSE xs[1] \o sep \o Join(sep, Tail(xs))

----------------------------------------------------------------------------
\* Inputs of the root classifier

Items_v1 ==
  { [ title |-> Some("iPhone 13 Pro Max"), description |-> Some("Smartphone Apple"),
      total_bids |-> Some(5) ],
    [ title |-> Some("Notebook Dell Inspiron 15"),
      description |-> Some("Notebook com 8GB RAM"), total_bids |-> Some(0) ],
    [ title |-> Some("Smart TV Samsung 55"), description |-> Some(""),
      total_bids |-> None, total_bidders |-> Some(3) ],
    [ title |-> Some("Lote com 12 cadeiras") ],
    [ title |-> Some("5 unidades de monitor"), description |-> Some("Quantidade: 20"),
      total_bids |-> Some(0), total_bidders |-> Some(2) ],
    [ title |-> Some("Geladeira Consul 400L"), description |-> Some("Segunda Praca") ],
    [ title |-> Some("Ferramentas"), description |-> Some("lote misto") ],
    [ title |-> Some("Bicicleta Caloi"), description |-> None, total_bids |-> Some(0) ],
    [ title |-> Some("  "), description |-> Some("sem titulo"), total_bids |-> Some(2) ],
    [ description |-> Some("x") ],
    [ title |-> Some(""), description |-> None ],
    [ title |-> Some("Escavadeira Caterpillar"), description |-> Some("Usada"),
      total_bids |-> Some(2), total_bidders |-> Some(4) ],
    [ title |-> Some("Trator Valtra"), description |-> None,
      total_bids |-> Some(4), total_bidders |-> Some(5) ] }

opportunity_item_of ==
  [ item \in { i \in Items_v1 : ~IsNone(Get(i, "description", "")) } |->
      _is_opportunity_item(item) ]

groq_v1_of == [ post \in Posts |-> valid_categories_v1(post) ]

\* returns the result (None or Some(<< table, categories >>)) and self.stats
_classify_with_groq_v1(stats, title, description, post) ==
  LET valid_categories == groq_v1_of[post] IN
  IF valid_categories # << >>
  THEN [ result |-> Some(<< valid_categories[1], valid_categories >>),
         stats |-> [ stats EXCEPT !.success = @ + 1, !.total = @ + 1 ] ]
  ELSE [ result |-> None, stats |-> stats ]

\* classify, automatic 'oportunidades'
auto_oportunidades_v1(stats, item, reason) ==
  Outcome("", Some("oportunidades"),
          [ stats EXCEPT !.auto_oportunidades = @ + 1,
                         !.by_table = Incr(@, "oportunidades"),
                         !.oportunidades_reasons = Incr(@, reason),
                         !.total = @ + 1 ],
          item, << "opportunity" >>, << >>)

\* classify, several categories: 'diversos'
diversos_v1(stats, item, categories, post) ==
  Outcome("", Some("diversos"),
          [ stats EXCEPT !.diversos = @ + 1,
                         !.by_table = Incr(@, "diversos"),
                         !.diversos_combinations = Incr(@, Join("+", Sorted(categories))) ],
          [ k \in DOMAIN item \cup { "_categories", "_primary_category" } |->
              IF k = "_categories" THEN Some(categories)
              ELSE IF k = "_primary_category" THEN Some(categories[1])
              ELSE item[k] ],
          << "opportunity", "groq" >>, << post >>)

\* classify, one category: its own table
success_v1(stats, item, table_name, post) ==
  Outcome("", Some(table_name),
          [ stats EXCEPT !.success = @ + 1, !.by_table = Incr(@, table_name) ],
          item, << "opportunity", "groq" >>, << post >>)

\* classify, fallback
fallback_v1(stats, item, post) ==
  Outcome("", Some("oportunidades"),
          [ stats EXCEPT !.failed = @ + 1, !.total = @ + 1 ],
          item, << "opportunity", "groq", "fallback" >>, << post >>)

\* classify(item), with post the outcome of the HTTP request if one is issued
classify_v1(self, item, post) ==
  LET stats == self.stats
      t == Get(item, "title", "")
      desc == Get(item, "description", "")
  IN
  IF IsNone(t) THEN Outcome("AttributeError", None, stats, item, << >>, << >>)
  ELSE IF IsNone(desc) THEN Outcome("TypeError", None, stats, item, << >>, << >>)
  ELSE
  LET title == Strip(Val(t)) IN
  IF title = "" THEN Outcome("", None, stats, item, << >>, << >>)
  ELSE
  LET is_opportunity == opportunity_item_of[item][1]
      reason == opportunity_item_of[item][2]
  IN
  IF is_opportunity THEN auto_oportunidades_v1(stats, item, reason)
  ELSE
  LET groq == _classify_with_groq_v1(stats, title, Prefix(Val(desc), 500), post)
      result == groq.result
  IN
  IF ~IsNone(result)
  THEN LET table_name == Val(result)[1]
           categories == Val(result)[2]
       IN IF Len(categories) > 1 THEN diversos_v1(groq.stats, item, categories, post)
          ELSE success_v1(groq.stats, item, table_name, post)
  ELSE fallback_v1(groq.stats, item, post)

----------------------------------------------------------------------------
\* The classification phase (FASE 3) of a scraper's main(): the process imports
\* one of the two classifier modules, constructs a GroqTableClassifier and
\* calls classify on each normalized item in turn, filing the item under the
\* table returned. The items of normalized_items are drawn when the loop
\* reaches them; the phase's except clause files the whole list.

VARIABLES
  variant,       \* the module imported: "v2" (src/scrapers) or "v1" (src)
  GROQ_API_KEY,  \* os.getenv('GROQ_API_KEY') at import: None or Some(str)
  classifier,    \* None, or Some(self) once __init__ has returned
  init_exc,      \* the exception __init__ raised, '' if none
  returned,      \* number of classify calls that returned
  raised,        \* number of classify calls that raised
  decisions,     \* << deciding stage, returned table >> -> number of calls
  total,         \* len(normalized_items); main() returns before this phase when
                 \* nothing was collected
  items_by_table,\* table -> list of positions (1..total) of the items filed
  scrape,        \* None, or the state of a scraper's scrape() (FASE 1)
  timeline,      \* the classify calls and the sleeps of the loop, in order
  snapshot,      \* None, or Some(the top-level entries of a dict returned by
                 \* get_stats); its nested dicts are the classifier's own
  last           \* None, or Some(the last classify call: its argument arg and
                 \* its Outcome without the statistics)

vars == << variant, GROQ_API_KEY, classifier, init_exc, returned, raised,
           decisions, total, items_by_table, scrape, timeline, snapshot, last >>

Init ==
  /\ variant \in { "v2", "v1" }
  /\ GROQ_API_KEY \in { None, Some(""), Some("gsk_key") }
  /\ classifier = None
  /\ init_exc = ""
  /\ returned = 0
  /\ raised = 0
  /\ decisions = << >>
  /\ total \in 1..MaxCalls
  /\ items_by_table = << >>
  /\ scrape = None
  /\ timeline = << >>
  /\ snapshot = None
  /\ last = None

\* the stage that produced the result of a call that returned
DecidingStage(out) ==
  IF out.stages = << >> THEN "empty" ELSE out.stages[Len(out.stages)]

\* items_by_table[table].append(item) on a defaultdict(list)
append(by_table, table, i) ==
  [ t \in DOMAIN by_table \cup { table } |->
      IF t = table
      THEN (IF table \in DOMAIN by_table THEN by_table[table] ELSE << >>) \o << i >>
      ELSE by_table[t] ]

\* except Exception: items_by_table = {'oportunidades': normalized_items}
except_all == [ t \in { "oportunidades" } |-> [ k \in 1..total |-> k ] ]

\* the body of the loop after classify returned table for item number i:
\* megaleiloes files a falsy result under 'oportunidades', superbid and sodre
\* file nothing
file_item(table, i) ==
  IF ~Falsy(table) THEN append(items_by_table, Val(table), i)
  ELSE IF variant = "v2" THEN append(items_by_table, "oportunidades", i)
  ELSE items_by_table

\* the loop body's rate limit left out
rate_limit_ignored(i) == << >>

\* the rate limit at the end of the loop body, after classify number i:
\* 'if i < total: time.sleep(0.3)' in megaleiloes, time.sleep(0.2) in
\* superbid and sodre
rate_limit(i) ==
  IF variant = "v2" THEN (IF i < total THEN << "sleep" >> ELSE << >>)
  ELSE << "sleep" >>

\* the classifier and the observers after a classify call with Outcome out
AfterCall(item, out) ==
  /\ classifier' = Some([ Val(classifier) EXCEPT !.stats = out.stats ])
  /\ returned' = IF out.exc = "" THEN returned + 1 ELSE returned
  /\ raised' = IF out.exc = "" THEN raised ELSE raised + 1
  /\ decisions' = IF out.exc = ""
                  THEN Incr(decisions, << DecidingStage(out), out.ret >>)
                  ELSE decisions
  /\ items_by_table' = IF out.exc = ""
                       THEN file_item(out.ret, returned + 1)
                       ELSE except_all
  /\ last' = Some([ arg |-> item, exc |-> out.exc, ret |-> out.ret, item |-> out.item,
                     stages |-> out.stages, posts |-> out.posts ])
  /\ timeline' = timeline \o << "classify" >> \o
                    (IF out.exc = "" THEN rate_limit(returned + 1) ELSE << >>)
  /\ UNCHANGED << variant, GROQ_API_KEY, init_exc, total, scrape, snapshot >>

\* classifier = GroqTableClassifier()   (src/scrapers/groq_classifier.py)
Construct_v2 ==
  /\ variant = "v2"
  /\ IsNone(classifier)
  /\ init_exc = ""
  /\ classifier' = init_v2(GROQ_API_KEY).self
  /\ init_exc' = init_v2(GROQ_API_KEY).exc
  /\ items_by_table' = IF init_v2(GROQ_API_KEY).exc = "" THEN << >> ELSE except_all
  /\ UNCHANGED << variant, GROQ_API_KEY, returned, raised, decisions, total, scrape,
                  timeline, snapshot, last >>

\* classifier.classify(item)   (src/scrapers/groq_classifier.py)
Classify_v2 ==
  /\ variant = "v2"
  /\ ~IsNone(classifier)
  /\ raised = 0
  /\ returned < total
  /\ \E item \in Items_v2, post \in Posts :
       AfterCall(item, classify_v2(Val(classifier), item, post))

\* classifier = GroqTableClassifier()   (src/groq_classifier.py)
Construct_v1 ==
  /\ variant = "v1"
  /\ IsNone(classifier)
  /\ init_exc = ""
  /\ classifier' = init_v1(GROQ_API_KEY).self
  /\ init_exc' = init_v1(GROQ_API_KEY).exc
  /\ items_by_table' = IF init_v1(GROQ_API_KEY).exc = "" THEN << >> ELSE except_all
  /\ UNCHANGED << variant, GROQ_API_KEY, returned, raised, decisions, total, scrape,
                  timeline, snapshot, last >>

\* classifier.classify(item)   (src/groq_classifier.py)
Classify_v1 ==
  /\ variant = "v1"
  /\ ~IsNone(classifier)
  /\ raised = 0
  /\ returned < total
  /\ \E item \in Items_v1, post \in Posts :
       AfterCall(item, classify_v1(Val(classifier), item, post))

Next == Construct_v2 \/ Classify_v2 \/ Construct_v1 \/ Classify_v1

Spec == Init /\ [][Next]_vars

----------------------------------------------------------------------------
\* A client of the classifier that also takes the statistics with get_stats
\* and writes to the dict it was given.

\* the entries of the statistics whose values are dicts
NestedKeys == { "by_table", "oportunidades_reasons", "diversos_combinations" }

\* self.stats.copy(): a new dict with the same values; the counters are
\* copied, the nested dicts are the same objects as in self.stats
get_stats(self) == [ k \in DOMAIN self.stats \ NestedKeys |-> self.stats[k] ]

\* the dict returned by get_stats as the client reads it now
SnapshotValue ==
  [ k \in DOMAIN Val(classifier).stats |->
      IF k \in NestedKeys THEN Val(classifier).stats[k] ELSE Val(snapshot)[k] ]

\* snapshot = classifier.get_stats()
GetStats ==
  /\ ~IsNone(classifier)
  /\ IsNone(snapshot)
  /\ snapshot' = Some(get_stats(Val(classifier)))
  /\ UNCHANGED << variant, GROQ_API_KEY, classifier, init_exc, returned, raised,
                  decisions, total, items_by_table, scrape, timeline, last >>

\* snapshot['total'] = 0
WriteCounter ==
  /\ ~IsNone(snapshot)
  /\ snapshot' = Some([ Val(snapshot) EXCEPT !.total = 0 ])
  /\ UNCHANGED << variant, GROQ_API_KEY, classifier, init_exc, returned, raised,
                  decisions, total, items_by_table, scrape, timeline, last >>

\* snapshot['by_table'].clear()
WriteTable ==
  /\ ~IsNone(snapshot)
  /\ classifier' = Some([ Val(classifier) EXCEPT !.stats.by_table = << >> ])
  /\ UNCHANGED << variant, GROQ_API_KEY, init_exc, returned, raised, decisions, total,
                  items_by_table, scrape, timeline, snapshot, last >>

NextClient == Next \/ GetStats \/ WriteCounter \/ WriteTable

SpecClient == Init /\ [][NextClient]_vars

TypeOK ==
  /\ variant \in { "v2", "v1" }
  /\ returned \in 0..MaxCalls
  /\ raised \in 0..MaxCalls
  /\ init_exc \in { "", "ValueError" }
  /\ total \in 1..MaxCalls
  /\ \A t \in DOMAIN items_by_table :
       \A k \in DOMAIN items_by_table[t] : items_by_table[t][k] \in 1..total
----------------------------------------------------------------------------
\* FASE 1: scrape() and _scrape_section() of the three scrapers.  scrape holds
\*   scraper      'megaleiloes', 'superbid' or 'sodre'
\*   pc           'section' between two sections, 'loop' in the while loop of
\*                _scrape_section, 'return' after it was left by break or
\*                return, 'done' after scrape returned
\*   section      index in main_sections of the current section
\*   page_num, consecutive, items, novos    locals of _scrape_section
\*                (consecutive_empty, consecutive_errors or sem_novos)
\*   all_items, global_ids                  locals of scrape
\*   duplicates   self.stats['duplicates']
\*   iterations   bodies of the while loop run in the current section
\*   seen         cards for which an item was extracted

\* two of the sections of self.main_sections
main_sections == << "veiculos", "imoveis" >>

max_pages(scraper) == IF scraper = "superbid" THEN 2 * MaxPages ELSE MaxPages

\* what one page load can give: an exception, an error status, 404, or a
\* list of cards, each giving no item (None) or an item with an external_id;
\* next is the result of sodre's _try_next_page
Pages ==
  LET Cards == { None, Some("lot_1"), Some("lot_2") }
      CardLists == UNION { [ 1..n -> Cards ] : n \in 0..MaxCards }
  IN  { [ outcome |-> o, cards |-> << >>, next |-> FALSE ] :
          o \in { "raises", "status", "not_found" } }
      \cup { [ outcome |-> "ok", cards |-> c, next |-> b ] :
               c \in CardLists, b \in BOOLEAN }

\* the same page is requested again after an error
error_page_retried(r) == [ r EXCEPT !.consecutive = @ + 1 ]

\* consecutive_empty += 1; page_num += 1   (error status, exception, no cards)
error_page(r) == [ r EXCEPT !.consecutive = @ + 1, !.page_num = @ + 1 ]

RECURSIVE card_loop_per_section(_, _)
\* the loop over the cards testing repeats against the section's items only
card_loop_per_section(r, cards) ==
  IF cards = << >> THEN r
  ELSE LET item == Head(cards) IN
       card_loop_per_section(
         IF IsNone(item) THEN r
         ELSE IF \E n \in 1..Len(r.items) : r.items[n] = Val(item)
         THEN [ r EXCEPT !.duplicates = @ + 1, !.seen = @ + 1 ]
         ELSE [ r EXCEPT !.items = Append(@, Val(item)),
                         !.global_ids = @ \cup { Val(item) },
                         !.novos = @ + 1,
                         !.seen = @ + 1 ],
         Tail(cards))

RECURSIVE card_loop(_, _)
\* for card in cards: skip a card that gives no item, count an item whose
\* external_id is in global_ids as a duplicate, append any other item
card_loop(r, cards) ==
  IF cards = << >> THEN r
  ELSE LET item == Head(cards) IN
       card_loop(
         IF IsNone(item) THEN r
         ELSE IF Val(item) \in r.global_ids
         THEN [ r EXCEPT !.duplicates = @ + 1, !.seen = @ + 1 ]
         ELSE [ r EXCEPT !.items = Append(@, Val(item)),
                         !.global_ids = @ \cup { Val(item) },
                         !.novos = @ + 1,
                         !.seen = @ + 1 ],
         Tail(cards))

\* the state on entry to scrape(), and the rest of the program's state before
\* FASE 3
InitScrape ==
  /\ \E scraper \in { "megaleiloes", "superbid", "sodre" } :
       /\ scrape = Some([ scraper |-> scraper, pc |-> "section", section |-> 1, page_num |-> 1,
                       consecutive |-> 0, items |-> << >>, novos |-> 0, all_items |-> << >>,
                       global_ids |-> { }, duplicates |-> 0, iterations |-> 0, seen |-> 0 ])
       /\ variant = IF scraper = "megaleiloes" THEN "v2" ELSE "v1"
  /\ GROQ_API_KEY \in { None, Some(""), Some("gsk_key") }
  /\ classifier = None
  /\ init_exc = ""
  /\ returned = 0
  /\ raised = 0
  /\ decisions = << >>
  /\ total = 1
  /\ items_by_table = << >>
  /\ timeline = << >>
  /\ snapshot = None
  /\ last = None

\* scrape: the next section is handed to _scrape_section, which sets its
\* locals; in sodre the first page.goto may raise, and items is returned empty
StartSection ==
  /\ Val(scrape).pc = "section"
  /\ \E loaded \in BOOLEAN :
       /\ ~loaded => Val(scrape).scraper = "sodre"
       /\ scrape' = Some([ Val(scrape) EXCEPT !.pc = IF loaded THEN "loop" ELSE "return",
                                        !.items = << >>,
                                        !.page_num = 1,
                                        !.consecutive = 0,
                                        !.iterations = 0 ])
  /\ UNCHANGED << variant, GROQ_API_KEY, classifier, init_exc, returned, raised,
                  decisions, total, items_by_table, timeline, snapshot, last >>

\* the while condition of _scrape_section
InLoop(r) ==
  r.pc = "loop" /\ r.page_num <= max_pages(r.scraper) /\ r.consecutive < 3

\* MegaLeiloesScraper._scrape_section: one body of the while loop
Page_megaleiloes ==
  /\ Val(scrape).scraper = "megaleiloes"
  /\ InLoop(Val(scrape))
  /\ \E page \in Pages :
       LET r == Val(scrape)
           r1 == card_loop(r, page.cards)
       IN  scrape' = Some([ (
             IF page.outcome # "ok" \/ page.cards = << >> THEN error_page(r)
             ELSE [ r1 EXCEPT !.consecutive = IF r1.novos > 0 THEN 0 ELSE @ + 1,
                              !.page_num = @ + 1 ])
             EXCEPT !.novos = 0, !.iterations = @ + 1 ])
  /\ UNCHANGED << variant, GROQ_API_KEY, classifier, init_exc, returned, raised,
                  decisions, total, items_by_table, timeline, snapshot, last >>

\* SuperbidScraper._scrape_section: one body of the while loop
Page_superbid ==
  /\ Val(scrape).scraper = "superbid"
  /\ InLoop(Val(scrape))
  /\ \E page \in Pages :
       LET r == Val(scrape)
           r1 == card_loop(r, page.cards)
           r2 == [ r1 EXCEPT !.consecutive = IF r1.novos > 0 THEN 0 ELSE @ ]
       IN  scrape' = Some([ (
             IF page.outcome = "not_found" THEN [ r EXCEPT !.pc = "return" ]
             ELSE IF page.outcome # "ok" THEN error_page(r)
             ELSE IF page.cards = << >> THEN [ r EXCEPT !.pc = "return" ]
             ELSE IF Len(page.cards) < MaxCards THEN [ r2 EXCEPT !.pc = "return" ]
             ELSE [ r2 EXCEPT !.page_num = @ + 1 ])
             EXCEPT !.novos = 0, !.iterations = @ + 1 ])
  /\ UNCHANGED << variant, GROQ_API_KEY, classifier, init_exc, returned, raised,
                  decisions, total, items_by_table, timeline, snapshot, last >>

\* SodreScraper._scrape_section: one body of the while loop
Page_sodre ==
  /\ Val(scrape).scraper = "sodre"
  /\ InLoop(Val(scrape))
  /\ \E page \in Pages :
       LET r == Val(scrape)
           r1 == card_loop(r, page.cards)
           r2 == IF page.cards = << >> THEN [ r EXCEPT !.consecutive = @ + 1 ]
                 ELSE [ r1 EXCEPT !.consecutive = IF r1.novos > 0 THEN 0 ELSE @ + 1 ]
       IN  scrape' = Some([ (
             IF page.outcome = "raises" THEN error_page(r)
             ELSE IF ~page.next THEN [ r2 EXCEPT !.pc = "return" ]
             ELSE [ r2 EXCEPT !.page_num = @ + 1 ])
             EXCEPT !.novos = 0, !.iterations = @ + 1 ])
  /\ UNCHANGED << variant, GROQ_API_KEY, classifier, init_exc, returned, raised,
                  decisions, total, items_by_table, timeline, snapshot, last >>

\* _scrape_section returns items; scrape extends all_items with them and goes
\* to the next section, or returns all_items after the last one
EndSection ==
  /\ Val(scrape).pc = "return" \/ (Val(scrape).pc = "loop" /\ ~InLoop(Val(scrape)))
  /\ scrape' = Some([ Val(scrape) EXCEPT
                     !.all_items = @ \o Val(scrape).items,
                     !.items = << >>,
                     !.section = @ + 1,
                     !.pc = IF Val(scrape).section < Len(main_sections)
                            THEN "section" ELSE "done" ])
  /\ UNCHANGED << variant, GROQ_API_KEY, classifier, init_exc, returned, raised,
                  decisions, total, items_by_table, timeline, snapshot, last >>

\* scrape of megaleiloes and sodre: an exception in the browser block outside
\* _scrape_section is caught and all_items is returned as it is
Abort ==
  /\ Val(scrape).scraper # "superbid"
  /\ Val(scrape).pc = "section"
  /\ scrape' = Some([ Val(scrape) EXCEPT !.pc = "done" ])
  /\ UNCHANGED << variant, GROQ_API_KEY, classifier, init_exc, returned, raised,
                  decisions, total, items_by_table, timeline, snapshot, last >>

NextScrape ==
  \/ StartSection
  \/ Page_megaleiloes
  \/ Page_superbid
  \/ Page_sodre
  \/ EndSection
  \/ Abort

SpecScrape == InitScrape /\ [][NextScrape]_vars


----------------------------------------------------------------------------
\* Vocabulary of the properties

Constructed == ~IsNone(classifier)
Stats == Val(classifier).stats
Called == ~IsNone(last)
Last == Val(last)

\* a step that is a classify call
CallStep == returned' + raised' # returned + raised

TitleField == IF variant = "v2" THEN "normalized_title" ELSE "title"
TABLES_INFO == IF variant = "v2" THEN TABLES_INFO_v2 ELSE TABLES_INFO_v1
CatchAll == IF variant = "v2" THEN "diversos" ELSE "oportunidades"

\* the item's title is non-empty after stripping
HasTitle(item) ==
  /\ TitleField \in DOMAIN item
  /\ ~IsNone(item[TitleField])
  /\ Strip(Val(item[TitleField])) # ""

\* the item's title is missing, empty or whitespace-only
EmptyTitle(item) ==
  \/ TitleField \notin DOMAIN item
  \/ ~IsNone(item[TitleField]) /\ Strip(Val(item[TitleField])) = ""

\* number of calls decided by stage with result ret
Count(stage, ret) ==
  IF << stage, ret >> \in DOMAIN decisions THEN decisions[<< stage, ret >>] ELSE 0

\* stats['by_table'].get(table, 0)
ByTable(table) == IF table \in DOMAIN Stats.by_table THEN Stats.by_table[table] ELSE 0

\* the request failed before an answer could be read: exception or timeout,
\* non-200 status, malformed JSON, missing or empty 'choices'
TransportFailed(post) ==
  \/ post.raises
  \/ post.status_code # 200
  \/ IsNone(post.json)
  \/ IsNone(Val(post.json).choices)
  \/ Val(Val(post.json).choices) = << >>

\* the service stage gave no decision
ServiceDeclined(post) ==
  \/ TransportFailed(post)
  \/ variant = "v2" /\ IsNone(groq_v2_of[post])
  \/ variant = "v1" /\ groq_v1_of[post] = << >>

----------------------------------------------------------------------------
\* C1 - Totality: every classify call on an item whose title is non-empty
\* after stripping returns, whatever the service does, a string that is a key
\* of the variant's TABLES_INFO; never None, never an exception.
C1_Totality ==
  (Called /\ HasTitle(Last.arg)) =>
    /\ Last.exc = ""
    /\ ~IsNone(Last.ret)
    /\ Val(Last.ret) \in TABLES_INFO

\* C2 - Financial priority (v2): a call on an item with a non-empty title
\* whose text contains a FINANCIAL_ABSTRACT_KEYWORDS phrase returns
\* 'diversos' and increments financial_blocked, with neither the keyword
\* pre-classifier nor the service evaluated.
C2_FinancialPriority ==
  [][ (variant = "v2" /\ CallStep /\ HasTitle(Val(last').arg)
        /\ _is_financial_abstract(Val(last').arg))
      => /\ Val(last').exc = ""
         /\ Val(last').ret = Some("diversos")
         /\ Val(last').stages = << "financial" >>
         /\ Val(last').posts = << >>
         /\ Val(classifier').stats.financial_blocked = Stats.financial_blocked + 1 ]_vars

C4_NoItemStopsBatch ==
  (variant = "v2" /\ Called /\ HasTitle(Last.arg) /\ ("description" \notin DOMAIN Last.arg \/ IsNone(Last.arg.description))) =>
    /\ Last.exc = ""
    /\ ~IsNone(Last.ret)

\* C5 - Stage conservation (v2): after N completed classify calls, of any
\* items and service outcomes, total = N and the five stage counters sum to
\* total.
C5_StageConservation ==
  (variant = "v2" /\ Constructed) =>
    /\ Stats.total = returned
    /\ Stats.pre_classified + Stats.groq_classifications + Stats.financial_blocked
         + Stats.mixed_detected + Stats.failed = Stats.total

\* two completed calls, one on an empty title and one decided by the service
C5_Witness ==
  /\ variant = "v2"
  /\ Constructed
  /\ returned = 2
  /\ Count("empty", None) = 1
  /\ Stats.groq_classifications = 1

\* C6 - Category conservation (v2): after any sequence of classify calls,
\* empty titles included, the values of by_table sum to total.
C6_CategoryConservation ==
  (variant = "v2" /\ Constructed) => SumValues(Stats.by_table) = Stats.total

\* C7 - Statistics conservation (v1): after N classify calls on items with
\* non-empty titles, total = N, success + auto_oportunidades + diversos +
\* failed = total and the values of by_table sum to total.
C7_StatisticsConservation ==
  (variant = "v1" /\ Constructed /\ raised = 0 /\ Count("empty", None) = 0) =>
    /\ Stats.total = returned
    /\ Stats.success + Stats.auto_oportunidades + Stats.diversos + Stats.failed
         = Stats.total
    /\ SumValues(Stats.by_table) = Stats.total

\* C8 - Empty input is recorded (both variants): a call on an item whose
\* title is empty or whitespace-only (and whose description is not None, so
\* that the title test is reached) returns None with no stage run and no
\* request, and increments both 'total' and 'failed' by one.
C8_EmptyInputRecorded ==
  [][ (CallStep /\ EmptyTitle(Val(last').arg)
        /\ ~("description" \in DOMAIN Val(last').arg /\ IsNone(Val(last').arg.description)))
      => /\ Val(last').exc = ""
         /\ IsNone(Val(last').ret)
         /\ Val(last').stages = << >>
         /\ Val(last').posts = << >>
         /\ Val(classifier').stats.total = Stats.total + 1
         /\ Val(classifier').stats.failed = Stats.failed + 1 ]_vars

\* C9 - Credential fail-fast: with GROQ_API_KEY unset or empty the
\* constructor raises ValueError; no classifier with an empty api_key exists
\* and no classify call happens without a credential.
C9_CredentialFailFast ==
  /\ [](/\ Constructed => (Val(classifier).api_key # "" /\ ~Falsy(GROQ_API_KEY))
        /\ Falsy(GROQ_API_KEY) => (~Constructed /\ returned + raised = 0 /\ ~Called)
        /\ init_exc # "" => (init_exc = "ValueError" /\ Falsy(GROQ_API_KEY)))
  /\ [][ Falsy(GROQ_API_KEY) => (init_exc' = "ValueError" /\ IsNone(classifier')) ]_vars

\* the constructor ran with an empty key and raised
C9_Witness ==
  /\ variant = "v2"
  /\ GROQ_API_KEY = Some("")
  /\ init_exc = "ValueError"
  /\ ~Constructed

----------------------------------------------------------------------------
\* the classification loop ran to its end
LoopFinished == Constructed /\ raised = 0 /\ returned = total

\* the places << table, index >> of items_by_table that hold item number i
Filed(i) ==
  { tk \in UNION { { << t, k >> : k \in DOMAIN items_by_table[t] } : t \in DOMAIN items_by_table } :
      items_by_table[tk[1]][tk[2]] = i }

\* C11 - Output boundary: every key of items_by_table is a key of the
\* TABLES_INFO of the classifier the scraper uses, also when classify
\* returned None and when the classification phase raised.
C11_OutputBoundary ==
  \A t \in DOMAIN items_by_table : t \in TABLES_INFO

\* C12 - One label per input: when the classification loop has finished,
\* every normalized item is in exactly one bucket of items_by_table, exactly
\* once, also when classify returned None for it.
C12_OneLabelPerInput ==
  LoopFinished => \A i \in 1..total : Cardinality(Filed(i)) = 1

----------------------------------------------------------------------------
\* the lower-cased normalized_title of an item that has one
TitleLower(item) == Lower(Val(item.normalized_title))

\* the categories of MIXED_LOT_CATEGORY_INDICATORS with an indicator in title
IndicatorCategories(title) ==
  { category \in DOMAIN MIXED_LOT_CATEGORY_INDICATORS :
      \E n \in 1..Len(MIXED_LOT_CATEGORY_INDICATORS[category]) :
        Contains(title, MIXED_LOT_CATEGORY_INDICATORS[category][n]) }

----------------------------------------------------------------------------
\* the normalized items whose collected title lists three or more
\* comma-separated items with indicators of two or more categories
NormalizedMixedLots ==
  { normalize(c[1], c[2]) :
      c \in { d \in Collected :
                /\ MixedLotPattern(Lower(d[1]))
                /\ Cardinality(IndicatorCategories(Lower(d[1]))) >= 2 } }

\* C14 - Mixed-lot detection (v2): a call on an item that the normalizer
\* produced from a title listing three or more comma-separated items of two
\* or more indicator categories returns 'diversos' through the mixed-lot rule
\* and increments mixed_detected.
C14_MixedLotDetection ==
  [][ (variant = "v2" /\ CallStep /\ Val(last').arg \in NormalizedMixedLots)
      => /\ Val(last').exc = ""
         /\ Val(last').ret = Some("diversos")
         /\ DecidingStage(Val(last')) = "mixed"
         /\ Val(classifier').stats.mixed_detected = Stats.mixed_detected + 1 ]_vars

----------------------------------------------------------------------------
\* the keyword lists of _try_obvious_classification, by the category each
\* list decides
KeywordLexicon ==
  [ imoveis |-> imovel_kw, veiculos |-> veiculo_kw, nichados |-> nichado_kw,
    tecnologia |-> tech_kw, eletrodomesticos |-> eletro_kw,
    moveis_decoracao |-> moveis_kw, casa_utilidades |-> utilidades_kw,
    bens_consumo |-> consumo_kw, alimentos_bebidas |-> alimentos_kw,
    materiais_construcao |-> construcao_kw, industrial_equipamentos |-> industrial_kw,
    maquinas_pesadas_agricolas |-> maquinas_kw, partes_pecas |-> pecas_kw,
    animais |-> animais_kw, sucatas_residuos |-> sucatas_kw,
    artes_colecionismo |-> artes_kw ]

\* the text the keyword stage searches: f"{title} {description}".lower()
KeywordText(item) ==
  Lower(Strip(Val(item.normalized_title)) \o " " \o Prefix(Val(Get(item, "description", "")), 500))

\* number of keywords of the category's list that occur in text
MatchCount(category, text) ==
  Cardinality({ n \in 1..Len(KeywordLexicon[category]) :
                  Contains(text, KeywordLexicon[category][n]) })

\* the match counts of every category, tabulated over the items that reach
\* the stages
match_counts_of ==
  [ item \in { i \in Items_v2 : "normalized_title" \in DOMAIN i
                                  /\ ~IsNone(Get(i, "description", "")) } |->
      [ category \in DOMAIN KeywordLexicon |-> MatchCount(category, KeywordText(item)) ] ]

\* the keyword stage was evaluated in the call
KeywordStageRan(call) == \E n \in 1..Len(call.stages) : call.stages[n] = "keyword"

\* the highest match count of the call's item
BestCount(call) ==
  CHOOSE m \in { match_counts_of[call.arg][c] : c \in DOMAIN KeywordLexicon } :
    \A c \in DOMAIN KeywordLexicon : match_counts_of[call.arg][c] <= m

\* the categories the keyword stage treats with priority, for which a single
\* strong match is allowed to decide
HighPrecision == { "imoveis", "veiculos", "nichados" }

\* C15 - Keyword scorer picks the highest count (v2): when the keyword stage
\* decides category C, no other category has strictly more keyword matches in
\* the text than C.
C15_HighestCount ==
  (variant = "v2" /\ Called /\ Last.exc = "" /\ DecidingStage(Last) = "keyword") =>
    \A c \in DOMAIN KeywordLexicon :
      match_counts_of[Last.arg][c] <= match_counts_of[Last.arg][Val(Last.ret)]

\* C16 - Keyword threshold (v2): the keyword stage decides a category only
\* if its match count reaches 2, a single match of a high-precision category
\* excepted; when the best count is a single match of another category the
\* stage gives no decision.
C16_KeywordThreshold ==
  (variant = "v2" /\ Called /\ Last.exc = "" /\ KeywordStageRan(Last)) =>
    /\ DecidingStage(Last) = "keyword" =>
         \/ match_counts_of[Last.arg][Val(Last.ret)] >= 2
         \/ Val(Last.ret) \in HighPrecision
    /\ (BestCount(Last) = 1
          /\ \A c \in HighPrecision : match_counts_of[Last.arg][c] = 0) =>
         DecidingStage(Last) # "keyword"

\* C17 - Tie guard (v2): when two or more categories share the highest match
\* count and it is at least 2, the keyword stage gives no decision and the
\* service is asked.
C17_TieGuard ==
  (variant = "v2" /\ Called /\ Last.exc = "" /\ KeywordStageRan(Last)
     /\ BestCount(Last) >= 2
     /\ Cardinality({ c \in DOMAIN KeywordLexicon :
                        match_counts_of[Last.arg][c] = BestCount(Last) }) >= 2) =>
    /\ DecidingStage(Last) # "keyword"
    /\ Last.posts # << >>

----------------------------------------------------------------------------
\* the message content of an answered request
AnswerOf(post) == Val(Val(Val(post.json).choices)[1])

\* the request was answered with status 200 and a message content
Answered(post) == ~TransportFailed(post) /\ ~IsNone(Val(Val(post.json).choices)[1])

\* answer is the id c, an alias of c, or c followed by '.', '!', ':' or white
\* space and any text
NamesId(answer, c) ==
  LET a == Lower(Strip(answer)) IN
  \/ a = c
  \/ a \in DOMAIN mappings /\ mappings[a] = c
  \/ /\ Len(a) > Len(c)
     /\ SubSeq(a, 1, Len(c)) = c
     /\ Ch(a, Len(c) + 1) \in { ".", "!", ":" } \cup Whitespace

\* C18 - AI answer normalization (v2): an answer that is a taxonomy id c, an
\* alias of c, or c followed by trailing punctuation or explanatory text is
\* normalized to c, which the service stage returns.
C18_AnswerNormalization ==
  (variant = "v2" /\ Called /\ Last.exc = "" /\ Last.posts # << >>
     /\ Answered(Last.posts[1])) =>
    \A c \in TABLES_INFO_v2 :
      NamesId(AnswerOf(Last.posts[1]), c) =>
        /\ Last.ret = Some(c)
        /\ DecidingStage(Last) = "groq"

----------------------------------------------------------------------------
\* item.get(field, 0) or 0
Signal(item, field) == OrZero(Get(item, field, 0))

\* the reason expected for an item with bids or with three or more bidders,
\* the bids rule first
ExpectedReason(item) ==
  IF Signal(item, "total_bids") > 0
  THEN "tem_lances (" \o ToString(Signal(item, "total_bids")) \o ")"
  ELSE "muitos_compradores (" \o ToString(Signal(item, "total_bidders")) \o ")"

\* stats['oportunidades_reasons'].get(reason, 0)
ReasonCount(stats, reason) ==
  IF reason \in DOMAIN stats.oportunidades_reasons
  THEN stats.oportunidades_reasons[reason] ELSE 0

\* C19 - Opportunity signals (v1): a call on an item with a non-empty title
\* and total_bids > 0 or total_bidders >= 3 returns 'oportunidades' from the
\* pre-filter, records the reason (bids before bidders) and sends no request.
C19_OpportunitySignals ==
  [][ (variant = "v1" /\ CallStep /\ HasTitle(Val(last').arg)
        /\ (Signal(Val(last').arg, "total_bids") > 0
              \/ Signal(Val(last').arg, "total_bidders") >= 3))
      => /\ Val(last').exc = ""
         /\ Val(last').ret = Some("oportunidades")
         /\ Val(last').stages = << "opportunity" >>
         /\ Val(last').posts = << >>
         /\ Val(classifier').stats.auto_oportunidades = Stats.auto_oportunidades + 1
         /\ ReasonCount(Val(classifier').stats, ExpectedReason(Val(last').arg))
              = ReasonCount(Stats, ExpectedReason(Val(last').arg)) + 1 ]_vars

----------------------------------------------------------------------------
\* classify on a classifier straight from the constructor, tabulated over the
\* items and the outcomes of the request
fresh_v2_of ==
  [ item \in Items_v2 |->
      [ post \in Posts |-> classify_v2(Val(init_v2(Some("gsk_key")).self), item, post) ] ]

fresh_v1_of ==
  [ item \in Items_v1 |->
      [ post \in Posts |-> classify_v1(Val(init_v1(Some("gsk_key")).self), item, post) ] ]

Fresh(item, post) ==
  IF variant = "v2" THEN fresh_v2_of[item][post] ELSE fresh_v1_of[item][post]

\* C20 - Statistics never alter routing: every classify call, whatever calls
\* the classifier has served before, returns (or raises) what a classifier
\* with untouched statistics returns for the same item and the same outcome
\* of the request, and asks the service in the same cases.
C20_StatsNeverAlterRouting ==
  [][ CallStep =>
        \E post \in Posts :
          /\ Fresh(Val(last').arg, post).posts = Val(last').posts
          /\ Fresh(Val(last').arg, post).ret = Val(last').ret
          /\ Fresh(Val(last').arg, post).exc = Val(last').exc ]_vars

\* a classifier that served a second call with statistics that record a first
\* call of another stage or result
C20_Witness ==
  /\ Constructed
  /\ returned = 2
  /\ Stats.total = 2
  /\ Cardinality(DOMAIN decisions) = 2

----------------------------------------------------------------------------
\* C21 - Read-only snapshot: a classify call changes no entry of a dict that
\* get_stats returned before, by_table included, and a write to that dict
\* leaves the classifier's statistics unchanged (a write being any step, other
\* than a classify call, taken while the client holds the dict).
C21_ReadOnlySnapshot ==
  [][ /\ (CallStep /\ ~IsNone(snapshot)) => SnapshotValue' = SnapshotValue
      /\ (~IsNone(snapshot) /\ ~IsNone(snapshot') /\ ~CallStep)
           => Val(classifier').stats = Stats ]_vars

----------------------------------------------------------------------------
\* C22 - Input is read-only: after a classify call the item has exactly the
\* keys and values it had before the call, whatever stage decided.
C22_InputReadOnly == Called => Last.item = Last.arg

----------------------------------------------------------------------------
\* the result with which a stage decides the last call, None when it declines
StageResult(stage) ==
  LET title == Strip(Val(Get(Last.arg, "normalized_title", "")))
      description == Prefix(Val(Get(Last.arg, "description", "")), 500)
  IN  IF stage = "financial"
      THEN (IF _is_financial_abstract(Last.arg) THEN Some("diversos") ELSE None)
      ELSE IF stage = "mixed"
      THEN (IF _is_obvious_mixed_lot(Last.arg) THEN Some("diversos") ELSE None)
      ELSE IF stage = "keyword"
      THEN (LET c == _try_obvious_classification(title, description)
            IN  IF Falsy(c) THEN None ELSE c)
      ELSE IF stage = "groq"
      THEN (LET t == _classify_with_groq_v2(title, description, Last.posts[1])
            IN  IF Falsy(t) THEN None ELSE t)
      ELSE Some("diversos")

\* C23 - Stage ordering (src/scrapers/groq_classifier.py): the stages a
\* classify call evaluates are an initial part of financial, mixed, keyword,
\* groq, fallback, in that order and each at most once; every stage before the
\* last one declined, and the last one decided and gave the returned value.
C23_StageOrdering ==
  (Called /\ variant = "v2" /\ Last.exc = "" /\ HasTitle(Last.arg)) =>
    LET StageOrder == << "financial", "mixed", "keyword", "groq", "fallback" >>
        n == Len(Last.stages)
    IN
      /\ n \in 1..Len(StageOrder)
      /\ Last.stages = SubSeq(StageOrder, 1, n)
      /\ \A k \in 1..(n - 1) : IsNone(StageResult(Last.stages[k]))
      /\ ~IsNone(StageResult(Last.stages[n]))
      /\ Last.ret = StageResult(Last.stages[n])

\* a call decided by the mixed-lot rule on an item that the keyword stage
\* would have classified
C23_Witness ==
  /\ Called /\ variant = "v2" /\ Last.exc = "" /\ HasTitle(Last.arg)
  /\ Last.stages = << "financial", "mixed" >>
  /\ ~IsNone(StageResult("keyword"))

----------------------------------------------------------------------------
\* C24 - Bounded service use: a classify call issues at most one HTTP request,
\* and none when the call ended before the service stage (empty title,
\* pre-filter rule, keyword pre-classifier, opportunity rule).
C24_BoundedServiceUse ==
  Called =>
    /\ Len(Last.posts) <= 1
    /\ Last.posts # << >> => DecidingStage(Last) \in { "groq", "fallback" }
    /\ DecidingStage(Last) \in { "empty", "financial", "mixed", "keyword", "opportunity" }
         => Last.posts = << >>

\* a call whose only request failed or was declined and that fell back
C24_Witness ==
  /\ Called
  /\ DecidingStage(Last) = "fallback"
  /\ Len(Last.posts) = 1
  /\ (TransportFailed(Last.posts[1]) \/ ServiceDeclined(Last.posts[1]))

----------------------------------------------------------------------------
\* C25 - Rate-limit delay: in the classification loop no two classify calls
\* follow each other without a sleep between them.
C25_RateLimitDelay ==
  \A k \in 1..(Len(timeline) - 1) :
    timeline[k] = "classify" => timeline[k + 1] # "classify"

\* the loop made two classify calls
C25_Witness ==
  Len(SelectSeq(timeline, LAMBDA e : e = "classify")) >= 2

----------------------------------------------------------------------------
\* C26 - Real-estate items go to 'imoveis' (src/scrapers/groq_classifier.py):
\* a call that returns for an item whose normalized title contains a keyword
\* of imovel_kw and none of the exclusion words returns 'imoveis'.
C26_RealEstateToImoveis ==
  (/\ Called /\ variant = "v2" /\ Last.exc = "" /\ HasTitle(Last.arg)
   /\ AnyIn(imovel_kw, TitleLower(Last.arg))
   /\ ~AnyIn(<< "peca", "componente", "miniatura", "brinquedo" >>, TitleLower(Last.arg)))
    => Last.ret = Some("imoveis")

----------------------------------------------------------------------------
\* the last call reached the keyword stage with an industrial-kitchen term of
\* nichado_kw in the text it searches
ProfessionalEquipment ==
  LET cozinha_industrial_kw ==
        << "fogao industrial", "geladeira industrial", "refrigerador industrial",
           "cozinha industrial", "cozinha profissional", "forno industrial",
           "fogao 6 bocas", "coifa industrial", "camara fria", "freezer industrial",
           "balcao refrigerado", "mesa inox", "pia inox", "bancada inox",
           "equipamento gastronomico", "pass through" >>
  IN  /\ Called /\ variant = "v2" /\ Last.exc = "" /\ KeywordStageRan(Last)
      /\ AnyIn(cozinha_industrial_kw, KeywordText(Last.arg))

----------------------------------------------------------------------------
\* C28 - Multi-category collapse (src/groq_classifier.py): classify returns
\* 'diversos' only when the answer names at least two distinct valid
\* categories; an answer naming one category, even repeated, gives that
\* category's table.
C28_MultiCategoryCollapse ==
  (Called /\ variant = "v1" /\ Last.exc = "") =>
    LET valid_categories == groq_v1_of[Last.posts[1]]
        NamedCategories == { valid_categories[n] : n \in 1..Len(valid_categories) }
    IN  /\ Last.ret = Some("diversos") =>
             Last.posts # << >> /\ Cardinality(NamedCategories) >= 2
        /\ \A c \in TABLES_INFO_v1 :
             (Last.posts # << >> /\ NamedCategories = { c }) => Last.ret = Some(c)

----------------------------------------------------------------------------
\* C29 - Pagination terminates: every body of the while loop of a
\* _scrape_section either leaves the loop or increases page_num, and a section
\* runs at most max_pages bodies.
C29_PaginationTerminates ==
  [][ Val(scrape').iterations = Val(scrape).iterations + 1 =>
        /\ Val(scrape').pc = "return" \/ Val(scrape').page_num > Val(scrape).page_num
        /\ Val(scrape').iterations <= max_pages(Val(scrape).scraper) ]_vars

\* a section that ran max_pages bodies and left the loop by its page bound
C29_Witness ==
  /\ Val(scrape).pc = "loop"
  /\ Val(scrape).iterations = max_pages(Val(scrape).scraper)
  /\ Val(scrape).page_num > max_pages(Val(scrape).scraper)
  /\ Val(scrape).consecutive < 3

\* C30 - No duplicate items: at every point of a scrape() run the items
\* collected so far have pairwise different external_ids, global_ids is
\* exactly the set of their ids, and stats['duplicates'] counts the extracted
\* items that were skipped.
C30_NoDuplicateItems ==
  LET r == Val(scrape)
      collected == r.all_items \o r.items
  IN  /\ \A i, j \in 1..Len(collected) : collected[i] = collected[j] => i = j
      /\ { collected[i] : i \in 1..Len(collected) } = r.global_ids
      /\ r.duplicates = r.seen - Len(collected)

\* a run over both sections that kept two items and skipped at least two repeats
C30_Witness ==
  /\ Val(scrape).pc = "done"
  /\ Len(Val(scrape).all_items) = 2
  /\ Val(scrape).duplicates >= 2
  /\ Val(scrape).section > Len(main_sections)
====
